---- MODULE Spec2Model ----
(***************************************************************************)
(* A model of crates/goose/src/agents/reply_parts.rs: the provider         *)
(* streaming adapter (stream_response_from_provider), the tool and prompt  *)
(* preparer (prepare_tools_and_prompt), the tool request categorizer       *)
(* (categorize_tool_requests) and the session metrics reconciler           *)
(* (update_session_metrics).  Each operation has its own specification     *)
(* over the shared variables; the variables of the other operations stay   *)
(* at their initial values.                                                *)
(***************************************************************************)
EXTENDS Integers, Sequences, FiniteSets, TLC

VARIABLES
    \* ---- stream_response_from_provider ----
    s_provider,      \* the provider the adapter is called with (config and behaviour)
    s_pc,            \* "idle" | "ready" | "interp" | "finished" | "dropped"
    s_ret,           \* what the call itself returned: None | Some("Ok") | Some("Err")
    s_kind,          \* which generator the call returned: "none" | "error" | "main"
    s_open_err,      \* the error captured by the error generator (Option)
    s_native,        \* the provider's native stream: "none" | "open" | "released"
    s_stream,        \* the items of the native stream the adapter reads from
    s_pos,           \* number of native items pulled with stream.next()
    s_cur,           \* the item whose message is in toolshim_postprocess (Option)
    s_out,           \* the items the consumer has received, in order
    s_interp,        \* log of the interpreter invocations and their outcomes
    current_model,   \* the process-wide cell written by set_current_model (Option)
    s_other,         \* the usages of the items another adapter sequence of the
                     \* process has gone through, in order
    \* ---- the agent's shared state ----
    frontend_tools,  \* the frontend-tool registry: the names registered in it
    locks,           \* holder of each mutex: "free" or the task holding its guard
    \* ---- prepare_tools_and_prompt ----
    p_agent,         \* router flag, configured provider, its model config
    p_pc,            \* "idle" | "listed" | "merge" | "info" | "provider" |
                     \* "prompt" | "build" | "done"
    p_tools,         \* the local `tools`
    p_router_list,   \* what list_tools_for_router() returned (Option)
    p_fallback,      \* what list_tools(None) returned, when consulted (Option)
    p_listed,        \* the tools taken from the listers (after the retain)
    p_frontend,      \* the registry's values in the order they were iterated
    p_result,        \* the value returned (Option of a Result)
    \* ---- categorize_tool_requests ----
    c_response,      \* the message the call is given
    c_pc,            \* "idle" | "filter" | "partition" | "done"
    c_tool_requests, \* the local `tool_requests`
    c_i,             \* position of the filtering loop in response.content
    c_filtered_content,
    c_filtered_message,   \* Option
    c_j,             \* position of the partition loop in tool_requests
    c_frontend_requests,
    c_other_requests,
    c_result,        \* the returned triple (Option)
    c_round,         \* 1 for a first call, 2 for a call on the previous output
    c_prev,          \* the previous call's result (Option)
    \* ---- update_session_metrics ----
    sessions,        \* the session store: session id -> Option of a Session
    m_config,        \* the SessionConfig the calls are made with
    m_pc,            \* per caller: "idle" | "lookup" | "persist"
    m_usage,         \* per caller: the usage of the call in progress
    m_session,       \* per caller: the session get_session returned (Option)
    m_ret,           \* per caller: what its last call returned (Option)
    m_calls,         \* number of calls made so far
    m_expect,        \* per counter, over the initial value and the samples of the
                     \* successful calls: whether one was present, and their sum
    m_attempts,      \* per caller, for its latest call: how many times
                     \* get_session and apply() were awaited
    m_base,          \* per caller: the samples the session it looked up reflects
    m_reflect,       \* per counter: the samples the stored session reflects
    m_overlap        \* whether a call was made while another was in progress

s_vars == <<s_provider, s_pc, s_ret, s_kind, s_open_err, s_native, s_stream, s_pos,
            s_cur, s_out, s_interp, current_model, s_other>>

a_vars == <<frontend_tools, locks>>
p_vars == <<p_agent, p_pc, p_tools, p_router_list, p_fallback, p_listed, p_frontend,
            p_result>>

c_vars == <<c_response, c_pc, c_tool_requests, c_i, c_filtered_content,
            c_filtered_message, c_j, c_frontend_requests, c_other_requests, c_result,
            c_round, c_prev>>

m_vars == <<sessions, m_config, m_pc, m_usage, m_session, m_ret, m_calls, m_expect,
            m_attempts, m_base, m_reflect, m_overlap>>

vars == <<s_vars, a_vars, p_vars, c_vars, m_vars>>

\* What each operation leaves alone.
s_others == <<a_vars, p_vars, c_vars, m_vars>>
p_others == <<s_vars, c_vars, m_vars>>
c_others == <<s_vars, p_vars, m_vars>>
m_others == <<s_vars, a_vars, p_vars, c_vars>>

----------------------------------------------------------------------------
(* Option<T>, Result<T, E> and the data types of the module                *)

None == <<>>
Some(x) == <<x>>
IsSome(o) == o # <<>>
Unwrap(o) == o[1]

\* Sequences over S of length at most n.
SeqUpTo(S, n) == UNION {[1..k -> S] : k \in 0..n}

\* ---- bounds ----
MaxChunks == 2     \* longest native stream of a streaming provider
MaxTools == 2      \* longest list a tool lister returns
MaxContent == 3    \* longest content of a message given to the categorizer
MaxCalls == 3      \* number of update_session_metrics calls in a behaviour
MaxOtherItems == 1 \* items another adapter sequence goes through meanwhile
MaxRaceCalls == 2  \* number of calls in a behaviour where calls may overlap

\* MessageContent: Text passes through opaquely, ToolRequest carries
\* tool_call: Result<ToolCall, _> (ok = parsed; name = the call's tool name).
Text(t) == [kind |-> "Text", text |-> t, id |-> 0, ok |-> FALSE, name |-> <<>>]
ToolRequestItem(id, ok, name) ==
    [kind |-> "ToolRequest", text |-> "", id |-> id, ok |-> ok, name |-> name]

\* Message { role, created, content, id }
Msg(role, created, id, content) ==
    [role |-> role, created |-> created, id |-> id, content |-> content]

\* ProviderError values: a variant and its text.
ProviderErr(variant, text) == [variant |-> variant, text |-> text]
ProviderErrors ==
    {ProviderErr("RateLimitExceeded", <<>>), ProviderErr("ServerError", <<>>)}

\* Items of a MessageStream: Result<(Option<Message>, Option<ProviderUsage>), ProviderError>
OkItem(message, usage) ==
    [ok |-> TRUE, message |-> message, usage |-> usage, err |-> None]
ErrItem(e) ==
    [ok |-> FALSE, message |-> None, usage |-> None, err |-> Some(e)]

\* ProviderUsage { model, usage: Usage { input_tokens, output_tokens, total_tokens } }
Usage(input, output, total) ==
    [input_tokens |-> input, output_tokens |-> output, total_tokens |-> total]
ProviderUsage(model, usage) == [model |-> model, usage |-> usage]

----------------------------------------------------------------------------
(* The provider streaming adapter: stream_response_from_provider           *)

StreamMessages ==
    {Msg("assistant", 1, None, <<Text("hi")>>),
     Msg("assistant", 2, None, <<Text("call a tool")>>)}
StreamUsages ==
    {ProviderUsage("model-a", Usage(None, None, None)),
     ProviderUsage("model-b", Usage(None, None, None))}

\* What a native stream can emit: (message?, usage?) pairs and provider errors.
NativeItems ==
    {OkItem(m, u) : m \in {None} \cup {Some(x) : x \in StreamMessages},
                    u \in {None} \cup {Some(x) : x \in StreamUsages}}
    \cup {ErrItem(e) : e \in ProviderErrors}

\* A provider as the adapter sees it: get_model_config().toolshim,
\* supports_streaming(), the result of stream()/complete() (call_err = the
\* error it fails with, if any), the chunks its native stream emits, and the
\* (message, usage) its completion returns.
StreamingProviders ==
    [streaming : {TRUE}, toolshim : BOOLEAN,
     call_err : {None} \cup {Some(e) : e \in ProviderErrors},
     chunks : SeqUpTo(NativeItems, MaxChunks),
     completion : {[message |-> Msg("assistant", 1, None, <<Text("hi")>>),
                    usage |-> ProviderUsage("model-a", Usage(None, None, None))]}]
OneShotProviders ==
    [streaming : {FALSE}, toolshim : BOOLEAN,
     call_err : {None} \cup {Some(e) : e \in ProviderErrors},
     chunks : {<<>>},
     completion : [message : StreamMessages, usage : StreamUsages]]
Providers == StreamingProviders \cup OneShotProviders

\* Result<T, E> as a record.
Ok(v) == [ok |-> TRUE, value |-> Some(v), err |-> None]
Err(e) == [ok |-> FALSE, value |-> None, err |-> Some(e)]

\* What one run of the text interpreter does: OllamaInterpreter::new() fails
\* with new_err, or augmentation fails with aug_err, or it extracts `calls`
\* (tool names) from the text.
InterpErrors == {"ollama unavailable"}
ExtractedCalls == {<<>>, <<(<<3>>)>>}
InterpOutcomes ==
    {[new_err |-> n, aug_err |-> a, calls |-> c] :
        n \in {None} \cup {Some(e) : e \in InterpErrors},
        a \in {None} \cup {Some(e) : e \in InterpErrors},
        c \in ExtractedCalls}

\* providers::base::stream_from_single_message
stream_from_single_message(message, usage) == <<OkItem(Some(message), Some(usage))>>

\* providers::toolshim::augment_message_with_tool_calls: the message plus one
\* ToolRequest per extracted call.
augment_message_with_tool_calls(response, calls) ==
    [response EXCEPT !.content =
        @ \o [i \in 1..Len(calls) |-> ToolRequestItem(i, TRUE, calls[i])]]

toolshim_postprocess(response, o) ==
    IF IsSome(o.new_err)
    THEN Err(ProviderErr("ExecutionError",
                         <<"Failed to create OllamaInterpreter: ", Unwrap(o.new_err)>>))
    ELSE IF IsSome(o.aug_err)
    THEN Err(ProviderErr("ExecutionError",
                         <<"Failed to augment message: ", Unwrap(o.aug_err)>>))
    ELSE Ok(augment_message_with_tool_calls(response, o.calls))

\* lines 127-153: the stream the provider call produced, or its error.
stream_result(p) ==
    IF IsSome(p.call_err) THEN Err(Unwrap(p.call_err))
    ELSE IF p.streaming THEN Ok(p.chunks)
    ELSE Ok(stream_from_single_message(p.completion.message, p.completion.usage))

\* A variant that propagates the provider's failure with `?`.
CallReturn_Propagate(r) == IF r.ok THEN "Ok" ELSE "Err"

\* lines 156-167: what the call itself returns for a stream result.
CallReturn(r) == "Ok"

\* lines 161-163: the items the error generator yields before it ends.
ErrorStreamItems(e) == <<ErrItem(e)>>

\* line 168: `while let Some(Ok((message, usage))) = stream.next().await`.
LoopMatches(next) == IsSome(next) /\ Unwrap(next).ok

\* A variant that only yields the items that carry usage.
YieldItems_OnlyWithUsage(message, usage) ==
    IF IsSome(usage) THEN <<OkItem(message, usage)>> ELSE <<>>

\* line 179: the item yielded for a (message, usage) pair.
YieldItems(message, usage) == <<OkItem(message, usage)>>

\* A variant that goes on with the next item after a failed conversion.
AfterPostprocess_Continue(r) == "ready"

\* line 176: `?` on the result of toolshim_postprocess: the generator goes on
\* after a successful conversion and ends after yielding the error otherwise.
AfterPostprocess(r) == IF r.ok THEN "ready" ELSE "finished"

\* The usage of an item of another adapter sequence: none, or another model's.
OtherUsages == {None, Some(ProviderUsage("model-c", Usage(None, None, None)))}

\* A variant that clears the cell for an item without usage.
ModelAfterItem_ClearedWithoutUsage(usage, model) ==
    IF IsSome(usage) THEN Some(Unwrap(usage).model) ELSE None

\* lines 170-172: set_current_model(&usage.model) when the item has usage.
ModelAfterItem(usage, model) ==
    IF IsSome(usage) THEN Some(Unwrap(usage).model) ELSE model

\* A variant in which the native stream outlives the generator.
NativeAfterDrop_Kept(native) == native

\* lines 167-181: the generator owns `stream`; dropping it drops the stream.
NativeAfterDrop(native) == IF native = "open" THEN "released" ELSE native

StreamIdle ==
    /\ s_provider = [streaming |-> FALSE, toolshim |-> FALSE, call_err |-> None,
                     chunks |-> <<>>,
                     completion |->
                        [message |-> Msg("assistant", 1, None, <<Text("hi")>>),
                         usage |-> ProviderUsage("model-a", Usage(None, None, None))]]
    /\ s_pc = "idle"
    /\ s_ret = None
    /\ s_kind = "none"
    /\ s_open_err = None
    /\ s_native = "none"
    /\ s_stream = <<>>
    /\ s_pos = 0
    /\ s_cur = None
    /\ s_out = <<>>
    /\ s_interp = <<>>
    /\ current_model = None
    /\ s_other = <<>>

StreamInit ==
    /\ s_provider \in Providers
    /\ s_pc = "idle"
    /\ s_ret = None
    /\ s_kind = "none"
    /\ s_open_err = None
    /\ s_native = "none"
    /\ s_stream = <<>>
    /\ s_pos = 0
    /\ s_cur = None
    /\ s_out = <<>>
    /\ s_interp = <<>>
    /\ current_model \in {None, Some("model-0")}
    /\ s_other = <<>>

\* The call of stream_response_from_provider (lines 103-167 up to the return).
StreamCall ==
    /\ UNCHANGED s_others
    /\ s_pc = "idle"
    /\ LET r == stream_result(s_provider)
           ret == CallReturn(r)
       IN /\ s_ret' = Some(ret)
          /\ IF ret # "Ok"
             THEN /\ s_kind' = "none"
                  /\ s_pc' = "finished"
                  /\ UNCHANGED <<s_open_err, s_native, s_stream>>
             ELSE IF r.ok
             THEN /\ s_kind' = "main"
                  /\ s_pc' = "ready"
                  /\ s_native' = "open"
                  /\ s_stream' = Unwrap(r.value)
                  /\ UNCHANGED s_open_err
             ELSE /\ s_kind' = "error"
                  /\ s_pc' = "ready"
                  /\ s_open_err' = r.err
                  /\ UNCHANGED <<s_native, s_stream>>
    /\ UNCHANGED <<s_provider, s_pos, s_cur, s_out, s_interp, current_model, s_other>>

\* The consumer polls the error generator (lines 161-163).
PollError ==
    /\ UNCHANGED s_others
    /\ s_pc = "ready"
    /\ s_kind = "error"
    /\ s_out' = s_out \o ErrorStreamItems(Unwrap(s_open_err))
    /\ s_pc' = "finished"
    /\ UNCHANGED <<s_provider, s_ret, s_kind, s_open_err, s_native, s_stream, s_pos,
                   s_cur, s_interp, current_model, s_other>>

\* The consumer polls the main generator: stream.next(), set_current_model,
\* and either the yield or the suspension in toolshim_postprocess (lines 168-179).
PollNext ==
    /\ UNCHANGED s_others
    /\ s_pc = "ready"
    /\ s_kind = "main"
    /\ LET next == IF s_pos < Len(s_stream) THEN Some(s_stream[s_pos + 1]) ELSE None
       IN /\ s_pos' = IF IsSome(next) THEN s_pos + 1 ELSE s_pos
          /\ IF ~LoopMatches(next)
             THEN /\ s_pc' = "finished"
                  /\ s_native' = "released"
                  /\ UNCHANGED <<s_cur, s_out, current_model>>
             ELSE LET item == Unwrap(next)
                  IN /\ current_model' = ModelAfterItem(item.usage, current_model)
                     /\ IF IsSome(item.message) /\ s_provider.toolshim
                        THEN /\ s_pc' = "interp"
                             /\ s_cur' = Some(item)
                             /\ UNCHANGED <<s_out, s_native>>
                        ELSE /\ s_out' = s_out \o YieldItems(item.message, item.usage)
                             /\ s_pc' = "ready"
                             /\ UNCHANGED <<s_cur, s_native>>
    /\ UNCHANGED <<s_provider, s_ret, s_kind, s_open_err, s_stream, s_interp, s_other>>

\* toolshim_postprocess returns for the item in hand (lines 175-179).
Postprocess ==
    /\ UNCHANGED s_others
    /\ s_pc = "interp"
    /\ \E o \in InterpOutcomes :
          LET item == Unwrap(s_cur)
              r == toolshim_postprocess(Unwrap(item.message), o)
          IN /\ s_interp' = Append(s_interp, [pos |-> s_pos, outcome |-> o])
             /\ s_pc' = AfterPostprocess(r)
             /\ s_out' = IF r.ok THEN s_out \o YieldItems(r.value, item.usage)
                         ELSE Append(s_out, ErrItem(Unwrap(r.err)))
             /\ s_native' = IF s_pc' = "finished" THEN "released" ELSE s_native
    /\ s_cur' = None
    /\ UNCHANGED <<s_provider, s_ret, s_kind, s_open_err, s_stream, s_pos, current_model,
                   s_other>>

\* The consumer drops the sequence before it is exhausted.
Abandon ==
    /\ UNCHANGED s_others
    /\ s_pc \in {"ready", "interp"}
    /\ s_pc' = "dropped"
    /\ s_cur' = None
    /\ s_native' = NativeAfterDrop(s_native)
    /\ UNCHANGED <<s_provider, s_ret, s_kind, s_open_err, s_stream, s_pos, s_out,
                   s_interp, current_model, s_other>>

\* lines 168-172 in another adapter sequence of the process: it goes through
\* an item of its own, with or without usage, once this sequence is open.
OtherAdapterItem ==
    /\ UNCHANGED s_others
    /\ s_pc \in {"ready", "interp", "dropped"}
    /\ Len(s_other) < MaxOtherItems
    /\ \E usage \in OtherUsages :
          /\ s_other' = Append(s_other, usage)
          /\ current_model' = ModelAfterItem(usage, current_model)
    /\ UNCHANGED <<s_provider, s_pc, s_ret, s_kind, s_open_err, s_native, s_stream,
                   s_pos, s_cur, s_out, s_interp>>

StreamNext ==
    StreamCall \/ PollError \/ PollNext \/ Postprocess \/ Abandon \/ OtherAdapterItem

----------------------------------------------------------------------------
(* Properties of the adapter                                               *)

OutcomeFails(o) == IsSome(o.new_err) \/ IsSome(o.aug_err)
NoConversionFailed == \A k \in 1..Len(s_interp) : ~OutcomeFails(s_interp[k].outcome)
AllNativeOk == \A i \in 1..Len(s_stream) : s_stream[i].ok

\* The interpreter's outcome for native item n, when it was invoked for it.
InterpAt(n) == (CHOOSE k \in 1..Len(s_interp) : s_interp[k].pos = n)
InterpOutcomeAt(n) == s_interp[InterpAt(n)].outcome

\* The output item that corresponds to native item n: the item itself, with
\* its message in toolshim-converted form when toolshim is enabled.
ConvertedItem(n) ==
    LET it == s_stream[n]
    IN IF s_provider.toolshim /\ IsSome(it.message)
       THEN [it EXCEPT !.message =
                Some([Unwrap(it.message) EXCEPT !.content =
                        @ \o [i \in 1..Len(InterpOutcomeAt(n).calls) |->
                                ToolRequestItem(i, TRUE, InterpOutcomeAt(n).calls[i])]])]
       ELSE it

\* C1: if the provider's stream-open call or one-shot completion fails with
\* E, the call itself still returns Ok, and the returned sequence yields
\* exactly one item, the error E, and then ends.
C1_OpenFailureIsSoleItem ==
    (s_pc # "idle" /\ IsSome(s_provider.call_err)) =>
        LET E == Unwrap(s_provider.call_err)
        IN /\ s_ret = Some("Ok")
           /\ s_out \in {<<>>, <<ErrItem(E)>>}
           /\ (s_pc = "finished" => s_out = <<ErrItem(E)>>)
           /\ (s_out # <<>> => s_pc = "finished")

C1_Witness ==
    /\ s_pc = "finished"
    /\ ~s_provider.streaming
    /\ s_provider.call_err = Some(ProviderErr("ServerError", <<>>))
    /\ s_out = <<ErrItem(ProviderErr("ServerError", <<>>))>>

C3_OneOutputPerProviderItem ==
    (s_kind = "main" /\ AllNativeOk /\ NoConversionFailed) =>
        /\ Len(s_out) \in {s_pos, s_pos - 1}
        /\ (s_pc \in {"ready", "finished"} => Len(s_out) = s_pos)
        /\ \A n \in 1..Len(s_out) : s_out[n] = ConvertedItem(n)
        /\ (s_pc = "finished" => Len(s_out) = Len(s_stream))
        /\ (~s_provider.streaming =>
               /\ Len(s_stream) = 1
               /\ s_stream[1].message = Some(s_provider.completion.message)
               /\ s_stream[1].usage = Some(s_provider.completion.usage))

C3_Witness ==
    /\ s_kind = "main"
    /\ s_pc = "finished"
    /\ s_provider.streaming
    /\ s_provider.toolshim
    /\ AllNativeOk
    /\ NoConversionFailed
    /\ Len(s_stream) = 2
    /\ Len(s_out) = 2
    /\ s_stream[1] # s_stream[2]
    /\ Len(s_interp) >= 1
    /\ Len(s_interp[1].outcome.calls) = 1

\* C4: with toolshim enabled, a failed inbound conversion of an item's
\* message is yielded as an execution error and is the final item: the
\* failing item's pair is not yielded, no later provider item is pulled, and
\* the items before it were yielded normally.
C4_ConversionFailureEndsSequence ==
    \A k \in 1..Len(s_interp) :
        OutcomeFails(s_interp[k].outcome) =>
            LET n == s_interp[k].pos
                o == s_interp[k].outcome
            IN /\ s_provider.toolshim
               /\ k = Len(s_interp)
               /\ s_pc = "finished"
               /\ s_pos = n
               /\ Len(s_out) = n
               /\ ~s_out[n].ok
               /\ Unwrap(s_out[n].err).variant = "ExecutionError"
               /\ Unwrap(s_out[n].err).text[1] =
                     IF IsSome(o.new_err) THEN "Failed to create OllamaInterpreter: "
                     ELSE "Failed to augment message: "
               /\ \A i \in 1..(n - 1) : s_out[i].ok /\ s_out[i] = ConvertedItem(i)

C4_Witness ==
    /\ s_pc = "finished"
    /\ Len(s_interp) = 2
    /\ ~OutcomeFails(s_interp[1].outcome)
    /\ IsSome(s_interp[2].outcome.aug_err)
    /\ s_interp[2].outcome.new_err = None
    /\ Len(s_out) = 2
    /\ s_out[1].ok
    /\ ~s_out[2].ok

\* C17: the last-used-model cell is written by every step that goes through
\* an ok item with usage, of this sequence or of another one, with that
\* item's model id, and by no other step: an item without usage, an error
\* item, a failure to open the stream and the toolshim conversion (failing
\* or not, it comes after the write) leave it as it was, so the cell holds
\* the model of the latest such item.
C17_LastModelWrittenByItemsWithUsage ==
    [][LET own == /\ s_pos' = s_pos + 1
                  /\ s_stream[s_pos'].ok
                  /\ IsSome(s_stream[s_pos'].usage)
           other == /\ Len(s_other') = Len(s_other) + 1
                    /\ IsSome(s_other'[Len(s_other')])
       IN current_model' =
             IF own THEN Some(Unwrap(s_stream[s_pos'].usage).model)
             ELSE IF other THEN Some(Unwrap(s_other'[Len(s_other')]).model)
             ELSE current_model]_vars

\* The other sequence wrote model-c, this one then went through an item with
\* usage of model-b whose conversion failed: the cell holds model-b.
C17_Witness ==
    /\ s_other = <<Some(ProviderUsage("model-c", Usage(None, None, None)))>>
    /\ s_provider.toolshim
    /\ s_pos = 1
    /\ s_stream[1].ok
    /\ s_stream[1].usage = Some(ProviderUsage("model-b", Usage(None, None, None)))
    /\ Len(s_interp) = 1
    /\ OutcomeFails(s_interp[1].outcome)
    /\ s_pc = "finished"
    /\ current_model = Some("model-b")

\* C18: the generator runs only when the consumer asks for an item: the n-th
\* native item is pulled only once n - 1 items are delivered and the n-th is
\* asked for; once the consumer has dropped the sequence nothing more is
\* pulled, converted, delivered or written to the model cell by it, and the
\* native stream is released.
C18_PullDrivenAndCancellable ==
    [][/\ s_kind' = "main" =>
             /\ s_pos' <= Len(s_out') + 1
             /\ s_pc' = "ready" => s_pos' = Len(s_out')
             /\ Len(s_interp') <= s_pos'
       /\ s_pc' = "dropped" => s_native' # "open"
       /\ s_pc = "dropped" =>
             /\ s_pc' = "dropped"
             /\ s_pos' = s_pos /\ s_interp' = s_interp /\ s_out' = s_out
             /\ s_other' = s_other => current_model' = current_model]_vars

\* Dropped after the first of two items, during its conversion: the second
\* item was never pulled and the native stream is released.
C18_Witness ==
    /\ s_pc = "dropped"
    /\ s_kind = "main"
    /\ Len(s_stream) = 2
    /\ s_stream[2].ok /\ IsSome(s_stream[2].usage)
    /\ s_pos = 1
    /\ s_provider.toolshim
    /\ s_interp = <<>>
    /\ s_out = <<>>
    /\ s_native = "released"
    /\ Len(s_other) = MaxOtherItems

----------------------------------------------------------------------------
(* The tool and prompt preparer: prepare_tools_and_prompt                  *)

\* Tool names are byte strings, compared byte-wise (str::cmp).
Min(a, b) == IF a < b THEN a ELSE b
NameLess(a, b) ==
    \E i \in 1..(Min(Len(a), Len(b)) + 1) :
        /\ \A j \in 1..(i - 1) : a[j] = b[j]
        /\ IF i <= Len(a) /\ i <= Len(b) THEN a[i] < b[i]
           ELSE i > Len(a) /\ i <= Len(b)
NameLeq(a, b) == a = b \/ NameLess(a, b)

\* subagent_execute_task_tool::SUBAGENT_EXECUTE_TASK_TOOL_NAME and
\* dynamic_task_tools::DYNAMIC_TASK_TOOL_NAME_PREFIX, over a small alphabet.
SUBAGENT_EXECUTE_TASK_TOOL_NAME == <<2>>
DYNAMIC_TASK_TOOL_NAME_PREFIX == <<1>>

\* rmcp::model::Tool: its name, and `origin` for the rest of the descriptor
\* (two tools of the same name need not be the same tool).
Tool(name, origin) == [name |-> name, origin |-> origin]
ListerNames == {<<0>>, <<1>>, <<1, 2>>, <<2>>, <<3>>}
FrontendNames == {<<0>>, <<2, 0>>, <<4>>}
ListerTools == {Tool(n, "extension") : n \in ListerNames}
\* What a tool lister can return.
ListerResults == SeqUpTo(ListerTools, MaxTools)
\* frontend_tools maps a name to the FrontendTool registered under it.
FrontendTool(n) == Tool(n, "frontend")

IterationOrders(S) ==
    {f \in [1..Cardinality(S) -> S] : \A i, j \in 1..Cardinality(S) : f[i] = f[j] => i = j}

\* slice::sort_by(|a, b| a.name.cmp(&b.name)): a stable sort by name.
InsertByName(sorted, x) ==
    LET k == Cardinality({i \in 1..Len(sorted) : NameLeq(sorted[i].name, x.name)})
    IN SubSeq(sorted, 1, k) \o <<x>> \o SubSeq(sorted, k + 1, Len(sorted))
RECURSIVE SortByName(_)
SortByName(tools) ==
    IF tools = <<>> THEN <<>>
    ELSE InsertByName(SortByName(SubSeq(tools, 1, Len(tools) - 1)), tools[Len(tools)])

\* lines 50-53: the predicate of tools.retain.
RetainedWithoutSubagents(tool) ==
    /\ tool.name # SUBAGENT_EXECUTE_TASK_TOOL_NAME
    /\ tool.name # DYNAMIC_TASK_TOOL_NAME_PREFIX

\* A variant that falls back whenever the router-aware list is empty.
FallsBack_WhenEmpty(router_enabled, tools) == tools = <<>>

\* line 44: the condition of the fall back to list_tools(None).
FallsBack(router_enabled, tools) == ~router_enabled /\ tools = <<>>

\* lines 49-54: the tools taken from list_tools(None).
FallbackTools(all, subagents) ==
    IF ~subagents THEN SelectSeq(all, RetainedWithoutSubagents) ELSE all

\* A variant that skips a frontend tool whose name is already in the list.
AppendFrontend_SkipListed(tools, values) ==
    LET Unlisted(v) == \A i \in 1..Len(tools) : tools[i].name # v.name
    IN tools \o SelectSeq(values, Unlisted)

\* lines 59-61: every value of the registry is pushed onto the list.
AppendFrontend(tools, values) == tools \o values

\* A variant that leaves the merged list in insertion order.
OrderTools_Unsorted(router_enabled, tools) == tools

\* A variant that sorts whether the router is enabled or not.
OrderTools_Sorted(router_enabled, tools) == SortByName(tools)

\* lines 63-66: the ordering of the merged list.
OrderTools(router_enabled, tools) ==
    IF ~router_enabled THEN SortByName(tools) ELSE tools

\* providers::toolshim::modify_system_prompt_for_tool_json: the prompt with
\* the tools' schemas appended as text.
modify_system_prompt_for_tool_json(system_prompt, tools) ==
    [system_prompt EXCEPT !.tool_json = Some(tools)]

\* lines 78-85: the prompt the builder is asked for.
BuildSystemPrompt(model_name, router_enabled) ==
    [model_name |-> model_name, router_enabled |-> router_enabled, tool_json |-> None]

\* A variant that snapshots the tools but still sends them to the provider.
ToolshimSplit_KeepTools(toolshim, tools, system_prompt) ==
    [tools |-> tools,
     toolshim_tools |-> IF toolshim THEN tools ELSE <<>>,
     system_prompt |-> IF toolshim
                       THEN modify_system_prompt_for_tool_json(system_prompt, tools)
                       ELSE system_prompt]

\* lines 87-98: the returned triple.
ToolshimSplit(toolshim, tools, system_prompt) ==
    IF toolshim
    THEN [tools |-> <<>>, toolshim_tools |-> tools,
          system_prompt |-> modify_system_prompt_for_tool_json(system_prompt, tools)]
    ELSE [tools |-> tools, toolshim_tools |-> <<>>, system_prompt |-> system_prompt]

LockNames == {"frontend_tools", "prompt_manager", "frontend_instructions"}
AllFree == [l \in LockNames |-> "free"]
ReleasedBy(task) == [l \in LockNames |-> IF locks[l] = task THEN "free" ELSE locks[l]]

\* The agent as prepare_tools_and_prompt finds it: is_router_enabled(), the
\* provider (set or not), its model config and should_enabled_subagents of
\* its model name.
Agents ==
    [router_enabled : BOOLEAN, provider_set : BOOLEAN, toolshim : BOOLEAN,
     subagents : BOOLEAN, model_name : {"test-model"}]

AgentIdle ==
    /\ frontend_tools = {}
    /\ locks = AllFree

PrepIdle ==
    /\ p_agent = [router_enabled |-> FALSE, provider_set |-> FALSE, toolshim |-> FALSE,
                  subagents |-> FALSE, model_name |-> "test-model"]
    /\ p_pc = "idle"
    /\ p_tools = <<>>
    /\ p_router_list = None
    /\ p_fallback = None
    /\ p_listed = <<>>
    /\ p_frontend = <<>>
    /\ p_result = None

PrepInit ==
    /\ frontend_tools \in SUBSET FrontendNames
    /\ locks = AllFree
    /\ p_agent \in Agents
    /\ p_pc = "idle"
    /\ p_tools = <<>>
    /\ p_router_list = None
    /\ p_fallback = None
    /\ p_listed = <<>>
    /\ p_frontend = <<>>
    /\ p_result = None

\* lines 36-41: the router flag and the router-aware lister.
PrepListRouter ==
    /\ UNCHANGED p_others
    /\ p_pc = "idle"
    /\ \E listed \in ListerResults :
          /\ p_tools' = listed
          /\ p_router_list' = Some(listed)
    /\ p_pc' = "listed"
    /\ UNCHANGED <<a_vars, p_agent, p_fallback, p_listed, p_frontend, p_result>>

\* lines 43-55: the fall back to the unrestricted lister, without the
\* sub-agent tools when the model does not support them.
PrepFallback ==
    /\ UNCHANGED p_others
    /\ p_pc = "listed"
    /\ IF FallsBack(p_agent.router_enabled, p_tools)
       THEN \E all \in ListerResults :
              /\ p_fallback' = Some(all)
              /\ IF ~p_agent.provider_set
                 THEN /\ p_result' = Some(Err("provider not set"))
                      /\ p_pc' = "done"
                      /\ p_tools' = all
                      /\ UNCHANGED p_listed
                 ELSE /\ p_tools' = FallbackTools(all, p_agent.subagents)
                      /\ p_listed' = p_tools'
                      /\ p_pc' = "merge"
                      /\ UNCHANGED p_result
       ELSE /\ p_listed' = p_tools
            /\ p_pc' = "merge"
            /\ UNCHANGED <<p_tools, p_fallback, p_result>>
    /\ UNCHANGED <<a_vars, p_agent, p_router_list, p_frontend>>

\* lines 57-66: lock the registry, append its tools, order the list.
PrepMerge ==
    /\ UNCHANGED p_others
    /\ p_pc = "merge"
    /\ locks["frontend_tools"] = "free"
    /\ locks' = [locks EXCEPT !["frontend_tools"] = "prepare"]
    /\ \E order \in IterationOrders(frontend_tools) :
          LET values == [i \in 1..Len(order) |-> FrontendTool(order[i])]
          IN /\ p_frontend' = values
             /\ p_tools' = OrderTools(p_agent.router_enabled,
                                     AppendFrontend(p_tools, values))
    /\ p_pc' = "info"
    /\ UNCHANGED <<frontend_tools, p_agent, p_router_list, p_fallback, p_listed, p_result>>

\* lines 68-71: the extension manager's info and counts.
PrepInfo ==
    /\ UNCHANGED p_others
    /\ p_pc = "info"
    /\ p_pc' = "provider"
    /\ UNCHANGED <<a_vars, p_agent, p_tools, p_router_list, p_fallback, p_listed,
                   p_frontend, p_result>>

\* lines 73-76: the provider and its model config.
PrepProvider ==
    /\ UNCHANGED p_others
    /\ p_pc = "provider"
    /\ IF ~p_agent.provider_set
       THEN /\ p_result' = Some(Err("provider not set"))
            /\ p_pc' = "done"
            /\ locks' = ReleasedBy("prepare")
       ELSE /\ p_pc' = "prompt"
            /\ UNCHANGED <<p_result, locks>>
    /\ UNCHANGED <<frontend_tools, p_agent, p_tools, p_router_list, p_fallback, p_listed,
                   p_frontend>>

\* line 78: lock the prompt manager.
PrepLockPrompt ==
    /\ UNCHANGED p_others
    /\ p_pc = "prompt"
    /\ locks["prompt_manager"] = "free"
    /\ locks' = [locks EXCEPT !["prompt_manager"] = "prepare"]
    /\ p_pc' = "build"
    /\ UNCHANGED <<frontend_tools, p_agent, p_tools, p_router_list, p_fallback, p_listed,
                   p_frontend, p_result>>

\* lines 79-98: lock and copy the frontend instructions, build the prompt,
\* split for toolshim and return; the guards are dropped on return.
PrepBuild ==
    /\ UNCHANGED p_others
    /\ p_pc = "build"
    /\ locks["frontend_instructions"] = "free"
    /\ LET system_prompt == BuildSystemPrompt(p_agent.model_name, p_agent.router_enabled)
       IN p_result' = Some(Ok(ToolshimSplit(p_agent.toolshim, p_tools, system_prompt)))
    /\ locks' = ReleasedBy("prepare")
    /\ p_pc' = "done"
    /\ UNCHANGED <<frontend_tools, p_agent, p_tools, p_router_list, p_fallback, p_listed,
                   p_frontend>>

PrepNext ==
    PrepListRouter \/ PrepFallback \/ PrepMerge \/ PrepInfo \/ PrepProvider
        \/ PrepLockPrompt \/ PrepBuild

----------------------------------------------------------------------------
(* Properties of the preparer                                              *)

PrepOk == IsSome(p_result) /\ Unwrap(p_result).ok
PrepValue == Unwrap(Unwrap(p_result).value)
\* The merged list of a successful result.
Merged == IF p_agent.toolshim THEN PrepValue.toolshim_tools ELSE PrepValue.tools

Count(seq, x) == Cardinality({i \in 1..Len(seq) : seq[i] = x})

\* C5: a successful result has tools empty and toolshim_tools equal to the
\* merged list when toolshim is on, and toolshim_tools empty and tools equal
\* to the merged list when it is off.
C5_ToolshimSplitsTools ==
    PrepOk =>
        IF p_agent.toolshim
        THEN PrepValue.tools = <<>> /\ PrepValue.toolshim_tools = p_tools
        ELSE PrepValue.toolshim_tools = <<>> /\ PrepValue.tools = p_tools

C5_Witness ==
    /\ PrepOk
    /\ p_agent.toolshim
    /\ Len(p_tools) >= 3
    /\ PrepValue.tools = <<>>
    /\ PrepValue.toolshim_tools = p_tools

\* C6: with the router disabled the merged list of a successful result is
\* sorted by tool name, ascending, whatever order the lister and the
\* registry gave, and holds the listed tools and every registered frontend
\* tool.
C6_SortedWhenRouterDisabled ==
    (PrepOk /\ ~p_agent.router_enabled) =>
        /\ \A i, j \in 1..Len(Merged) : i < j => NameLeq(Merged[i].name, Merged[j].name)
        /\ \A n \in frontend_tools : Count(Merged, FrontendTool(n)) = 1
        /\ \A t \in ListerTools : Count(Merged, t) = Count(p_listed, t)
        /\ Len(Merged) = Len(p_listed) + Cardinality(frontend_tools)

C6_Witness ==
    /\ PrepOk
    /\ ~p_agent.router_enabled
    /\ Len(p_listed) = 2
    /\ NameLess(p_listed[2].name, p_listed[1].name)
    /\ Len(p_frontend) = 2
    /\ NameLess(p_frontend[2].name, p_frontend[1].name)
    /\ NameLess(p_frontend[2].name, p_listed[1].name)
    /\ NameLess(p_listed[2].name, p_frontend[1].name)

\* Whether a name starts with a prefix, and the tools the fall back is to
\* drop for a model without sub-agent support.
HasPrefix(name, prefix) ==
    Len(name) >= Len(prefix) /\ SubSeq(name, 1, Len(prefix)) = prefix
IsSubagentTool(tool) ==
    \/ tool.name = SUBAGENT_EXECUTE_TASK_TOOL_NAME
    \/ HasPrefix(tool.name, DYNAMIC_TASK_TOOL_NAME_PREFIX)
\* The call is past the listers (lines 38-55).
PrepListed == p_pc \notin {"idle", "listed"}

\* C13: when the call falls back and the model does not support sub-agent
\* tools, the tools taken from the fall back hold no sub-agent-execution
\* tool and no tool whose name starts with the dynamic-task prefix; when the
\* model supports them the fall back's list is taken whole.
C13_FallbackDropsSubagentTools ==
    (PrepListed /\ IsSome(p_fallback) /\ p_agent.provider_set) =>
        IF p_agent.subagents
        THEN p_listed = Unwrap(p_fallback)
        ELSE \A i \in 1..Len(p_listed) : ~IsSubagentTool(p_listed[i])

NamesUnique(tools) ==
    \A i, j \in 1..Len(tools) : tools[i].name = tools[j].name => i = j

\* C14 as stated: no two tools of the merged list have the same name,
\* whatever the listers and the registry hold.
C14_MergedNamesUnique == PrepOk => NamesUnique(Merged)

\* C14 as amended: the merged list has no two tools of the same name exactly
\* when the tools taken from the listers have distinct names and none of
\* them has the name of a registered frontend tool.
C14_UniqueIffInputsDistinct ==
    PrepOk =>
        (NamesUnique(Merged) <=>
            /\ NamesUnique(p_listed)
            /\ \A i \in 1..Len(p_listed) : p_listed[i].name \notin frontend_tools)

C14_Witness ==
    /\ PrepOk
    /\ Len(p_listed) = 2
    /\ Len(p_frontend) = 2
    /\ Len(Merged) = 4
    /\ NamesUnique(Merged)

\* C15: the unrestricted lister is consulted iff the router is disabled and
\* the router-aware list is empty; a non-empty router-aware list is taken as
\* it is; with the router enabled and an empty router-aware list the merged
\* list is the frontend tools alone.
C15_FallbackIffRouterOffAndEmpty ==
    PrepListed =>
        LET router_list == Unwrap(p_router_list)
        IN /\ IsSome(p_fallback) <=> (~p_agent.router_enabled /\ router_list = <<>>)
           /\ router_list # <<>> => p_listed = router_list
           /\ (PrepOk /\ p_agent.router_enabled /\ router_list = <<>>) =>
                 Merged = p_frontend

C15_Witness ==
    /\ PrepOk
    /\ ~p_agent.router_enabled
    /\ p_router_list = Some(<<>>)
    /\ IsSome(p_fallback)
    /\ Len(Unwrap(p_fallback)) = 2
    /\ p_listed = Unwrap(p_fallback)

\* C16: with the router enabled the merged list of a successful result is
\* the router-aware list as returned (same order, same multiplicity)
\* followed by the frontend tools in the order the registry gave them; it is
\* not sorted.
C16_RouterListThenFrontendTools ==
    (PrepOk /\ p_agent.router_enabled) =>
        /\ p_fallback = None
        /\ Merged = Unwrap(p_router_list) \o p_frontend

C16_Witness ==
    /\ PrepOk
    /\ p_agent.router_enabled
    /\ Len(Unwrap(p_router_list)) = 2
    /\ NameLess(Unwrap(p_router_list)[2].name, Unwrap(p_router_list)[1].name)
    /\ Len(p_frontend) = 2
    /\ NameLess(p_frontend[2].name, p_frontend[1].name)
    /\ Merged = Unwrap(p_router_list) \o p_frontend

\* C19: the guard of the frontend-tool registry is released once the tools
\* are copied: it is not held at any later suspension point of the call
\* (the extension manager's awaits, provider(), the prompt manager's and the
\* frontend instructions' locks).
C19_RegistryLockReleasedAfterCopy ==
    p_pc \in {"info", "provider", "prompt", "build"} => locks["frontend_tools"] = "free"

----------------------------------------------------------------------------
(* The tool request categorizer: categorize_tool_requests                  *)

\* ToolRequest { id, tool_call }: the request a ToolRequest content item holds.
ToolRequestOf(item) == [id |-> item.id, ok |-> item.ok, name |-> item.name]

ContentItems ==
    {Text("hi"),
     ToolRequestItem(1, TRUE, <<0>>),
     ToolRequestItem(2, TRUE, <<4>>),
     ToolRequestItem(3, FALSE, <<>>)}
Messages ==
    {Msg(role, created, id, content) :
        role \in {"user", "assistant"}, created \in {1, 2},
        id \in {None, Some("msg-1")}, content \in SeqUpTo(ContentItems, MaxContent)}

\* Agent::is_frontend_tool: membership in the frontend-tool registry.
is_frontend_tool(name) == name \in frontend_tools

\* lines 194-204: the tool requests of the content, in order.
CollectToolRequests(content) ==
    LET IsRequest(item) == item.kind = "ToolRequest"
        reqs == SelectSeq(content, IsRequest)
    IN [i \in 1..Len(reqs) |-> ToolRequestOf(reqs[i])]

\* A variant that keeps every content item.
ShouldInclude_All(item) == TRUE

\* lines 211-220: should_include.
ShouldInclude(item) ==
    IF item.kind = "ToolRequest"
    THEN IF item.ok THEN ~is_frontend_tool(item.name) ELSE TRUE
    ELSE TRUE

\* A variant that classifies by name alone, parsed or not.
IsFrontendRequest_ByName(request) ==
    ~request.ok \/ is_frontend_tool(request.name)

\* lines 240-249: whether a request goes to frontend_requests.
IsFrontendRequest(request) ==
    IF request.ok THEN is_frontend_tool(request.name) ELSE FALSE

\* Message::new(role, created, content): a message without id.
MessageNew(role, created, content) == Msg(role, created, None, content)
\* Message::with_id
WithId(message, id) == [message EXCEPT !.id = Some(id)]

\* A variant that does not carry the id over.
FilteredMessage_NoId(response, filtered_content) ==
    MessageNew(response.role, response.created, filtered_content)

\* lines 227-233: the filtered message.
FilteredMessage(response, filtered_content) ==
    LET m == MessageNew(response.role, response.created, filtered_content)
    IN IF IsSome(response.id) THEN WithId(m, Unwrap(response.id)) ELSE m

CatIdle ==
    /\ c_response = Msg("user", 1, None, <<>>)
    /\ c_pc = "idle"
    /\ c_tool_requests = <<>>
    /\ c_i = 1
    /\ c_filtered_content = <<>>
    /\ c_filtered_message = None
    /\ c_j = 1
    /\ c_frontend_requests = <<>>
    /\ c_other_requests = <<>>
    /\ c_result = None
    /\ c_round = 1
    /\ c_prev = None

CatInit ==
    /\ frontend_tools \in SUBSET FrontendNames
    /\ locks = AllFree
    /\ c_response \in Messages
    /\ c_pc = "idle"
    /\ c_tool_requests = <<>>
    /\ c_i = 1
    /\ c_filtered_content = <<>>
    /\ c_filtered_message = None
    /\ c_j = 1
    /\ c_frontend_requests = <<>>
    /\ c_other_requests = <<>>
    /\ c_result = None
    /\ c_round = 1
    /\ c_prev = None

\* lines 189-207: the call collects the tool requests.
CatCall ==
    /\ UNCHANGED c_others
    /\ c_pc = "idle"
    /\ c_tool_requests' = CollectToolRequests(c_response.content)
    /\ c_filtered_content' = <<>>
    /\ c_i' = 1
    /\ c_pc' = "filter"
    /\ UNCHANGED <<a_vars, c_response, c_filtered_message, c_j, c_frontend_requests,
                   c_other_requests, c_result, c_round, c_prev>>

\* lines 210-225: one iteration of the filtering loop; is_frontend_tool
\* takes the registry's lock for the lookup.
CatFilterStep ==
    /\ UNCHANGED c_others
    /\ c_pc = "filter"
    /\ c_i <= Len(c_response.content)
    /\ LET content == c_response.content[c_i]
       IN /\ (content.kind = "ToolRequest" /\ content.ok) => locks["frontend_tools"] = "free"
          /\ c_filtered_content' =
                IF ShouldInclude(content) THEN Append(c_filtered_content, content)
                ELSE c_filtered_content
    /\ c_i' = c_i + 1
    /\ UNCHANGED <<a_vars, c_response, c_pc, c_tool_requests, c_filtered_message, c_j,
                   c_frontend_requests, c_other_requests, c_result, c_round, c_prev>>

\* lines 227-237: the filtered message, and the two empty lists.
CatBuild ==
    /\ UNCHANGED c_others
    /\ c_pc = "filter"
    /\ c_i > Len(c_response.content)
    /\ c_filtered_message' = Some(FilteredMessage(c_response, c_filtered_content))
    /\ c_frontend_requests' = <<>>
    /\ c_other_requests' = <<>>
    /\ c_j' = 1
    /\ c_pc' = "partition"
    /\ UNCHANGED <<a_vars, c_response, c_tool_requests, c_i, c_filtered_content, c_result,
                   c_round, c_prev>>

\* lines 239-250: one iteration of the partition loop.
CatPartitionStep ==
    /\ UNCHANGED c_others
    /\ c_pc = "partition"
    /\ c_j <= Len(c_tool_requests)
    /\ LET request == c_tool_requests[c_j]
       IN /\ request.ok => locks["frontend_tools"] = "free"
          /\ IF IsFrontendRequest(request)
             THEN /\ c_frontend_requests' = Append(c_frontend_requests, request)
                  /\ UNCHANGED c_other_requests
             ELSE /\ c_other_requests' = Append(c_other_requests, request)
                  /\ UNCHANGED c_frontend_requests
    /\ c_j' = c_j + 1
    /\ UNCHANGED <<a_vars, c_response, c_pc, c_tool_requests, c_i, c_filtered_content,
                   c_filtered_message, c_result, c_round, c_prev>>

\* line 252: the returned triple.
CatReturn ==
    /\ UNCHANGED c_others
    /\ c_pc = "partition"
    /\ c_j > Len(c_tool_requests)
    /\ c_result' = Some([frontend_requests |-> c_frontend_requests,
                         other_requests |-> c_other_requests,
                         filtered_message |-> Unwrap(c_filtered_message)])
    /\ c_pc' = "done"
    /\ UNCHANGED <<a_vars, c_response, c_tool_requests, c_i, c_filtered_content,
                   c_filtered_message, c_j, c_frontend_requests, c_other_requests,
                   c_round, c_prev>>

\* The caller runs the categorizer again, on the filtered message it got.
CatRerun ==
    /\ UNCHANGED c_others
    /\ c_pc = "done"
    /\ c_round = 1
    /\ c_prev' = c_result
    /\ c_response' = Unwrap(c_result).filtered_message
    /\ c_round' = 2
    /\ c_pc' = "idle"
    /\ c_result' = None
    /\ c_filtered_message' = None
    /\ UNCHANGED <<a_vars, c_tool_requests, c_i, c_filtered_content, c_j,
                   c_frontend_requests, c_other_requests>>

CatNext ==
    CatCall \/ CatFilterStep \/ CatBuild \/ CatPartitionStep \/ CatReturn \/ CatRerun

\* Another task registers a frontend tool, under the registry's lock.
RegistryAdd(n) ==
    /\ UNCHANGED c_others
    /\ locks["frontend_tools"] = "free"
    /\ n \notin frontend_tools
    /\ frontend_tools' = frontend_tools \cup {n}
    /\ UNCHANGED <<locks, c_vars>>

\* Another task removes a frontend tool, under the registry's lock.
RegistryRemove(n) ==
    /\ UNCHANGED c_others
    /\ locks["frontend_tools"] = "free"
    /\ n \in frontend_tools
    /\ frontend_tools' = frontend_tools \ {n}
    /\ UNCHANGED <<locks, c_vars>>

\* One call of the categorizer while other tasks change the registry.
CatRaceNext ==
    \/ CatCall \/ CatFilterStep \/ CatBuild \/ CatPartitionStep \/ CatReturn
    \/ \E n \in FrontendNames : RegistryAdd(n) \/ RegistryRemove(n)

----------------------------------------------------------------------------
(* Properties of the categorizer                                           *)

CatDone == c_pc = "done" /\ IsSome(c_result)
CatResult == Unwrap(c_result)
IsToolRequest(item) == item.kind = "ToolRequest"
\* Parsed and classified frontend, for a content item or a request.
ParsedFrontend(x) == x.ok /\ x.name \in frontend_tools
NotParsedFrontend(x) == ~ParsedFrontend(x)
\* The ToolRequests of the input's content, in order.
InputRequests ==
    LET items == SelectSeq(c_response.content, IsToolRequest)
    IN [i \in 1..Len(items) |-> [id |-> items[i].id, ok |-> items[i].ok,
                                 name |-> items[i].name]]
AllRequests == {ToolRequestOf(item) : item \in {x \in ContentItems : IsToolRequest(x)}}

\* C7: the two lists partition the message's tool requests: each request is
\* in exactly one of them (as a multiset), each list keeps the content's
\* relative order, a request is in frontend_requests iff its tool_call
\* parsed and its name is classified frontend, and a parse failure is always
\* in other_requests.
C7_TotalPartition ==
    CatDone =>
        /\ CatResult.frontend_requests = SelectSeq(InputRequests, ParsedFrontend)
        /\ CatResult.other_requests = SelectSeq(InputRequests, NotParsedFrontend)
        /\ \A r \in AllRequests :
              /\ Count(CatResult.frontend_requests, r) + Count(CatResult.other_requests, r)
                    = Count(InputRequests, r)
              /\ Count(CatResult.frontend_requests, r) > 0 => ParsedFrontend(r)
              /\ (~r.ok /\ Count(InputRequests, r) > 0)
                    => Count(CatResult.other_requests, r) > 0

C7_Witness ==
    /\ CatDone
    /\ c_round = 1
    /\ Len(CatResult.frontend_requests) = 1
    /\ Len(CatResult.other_requests) = 2
    /\ \E k \in 1..2 : ~CatResult.other_requests[k].ok
    /\ \E k \in 1..2 : CatResult.other_requests[k].ok

\* C8: filtered_message has the role, created timestamp and id of the input
\* and its content is the input's content without exactly the parsed,
\* frontend-classified ToolRequest items: everything else is kept, unchanged
\* and in order.
C8_FilteredMessageFrame ==
    CatDone =>
        LET fm == CatResult.filtered_message
        IN /\ fm.role = c_response.role
           /\ fm.created = c_response.created
           /\ fm.id = c_response.id
           /\ fm.content = SelectSeq(c_response.content, NotParsedFrontend)

C8_Witness ==
    /\ CatDone
    /\ c_round = 1
    /\ IsSome(c_response.id)
    /\ c_response.created = 2
    /\ Len(c_response.content) = 3
    /\ c_response.content[1].kind = "ToolRequest"
    /\ ParsedFrontend(c_response.content[1])
    /\ c_response.content[2].kind = "Text"
    /\ ~c_response.content[3].ok /\ c_response.content[3].kind = "ToolRequest"
    /\ Len(CatResult.filtered_message.content) = 2

\* C9: run on the filtered_message of a previous run, with the same
\* classifier, the categorizer returns no frontend request, the previous
\* run's other_requests, and a filtered_message equal to its input.
C9_Idempotent ==
    (CatDone /\ c_round = 2) =>
        /\ CatResult.frontend_requests = <<>>
        /\ CatResult.other_requests = Unwrap(c_prev).other_requests
        /\ CatResult.filtered_message = c_response
        /\ CatResult.filtered_message = Unwrap(c_prev).filtered_message

C9_Witness ==
    /\ CatDone
    /\ c_round = 2
    /\ Len(Unwrap(c_prev).frontend_requests) >= 1
    /\ Len(Unwrap(c_prev).other_requests) >= 1
    /\ Len(c_response.content) = 2

\* C20: the outputs of one call agree with each other whatever other tasks
\* do to the registry meanwhile: the ToolRequest items kept in
\* filtered_message, in order, are exactly other_requests, and as many
\* items were removed as there are frontend_requests.
C20_OutputsAgreeUnderRegistryChanges ==
    CatDone =>
        /\ CollectToolRequests(CatResult.filtered_message.content)
              = CatResult.other_requests
        /\ Len(c_response.content) - Len(CatResult.filtered_message.content)
              = Len(CatResult.frontend_requests)

----------------------------------------------------------------------------
(* The session metrics reconciler: update_session_metrics                  *)

Callers == {1, 2}
SessionIds == {"s1"}
Counters == {"total", "input", "output"}

\* i32 addition as the release build computes it (the debug build panics
\* where this wraps).
I32Add(x, y) ==
    IF x > 0 /\ y > 2147483647 - x
    THEN (x - 2147483647 - 1) + (y - 2147483647 - 1)
    ELSE IF x < 0 /\ y < (-2147483647 - 1) - x
    THEN (x + 2147483647 + 1) + (y + 2147483647 + 1)
    ELSE x + y

\* A variant that counts an absent value as zero.
accumulate_AbsentIsZero(a, b) ==
    Some(I32Add(IF IsSome(a) THEN Unwrap(a) ELSE 0, IF IsSome(b) THEN Unwrap(b) ELSE 0))

\* lines 262-267: the closure `accumulate`.
accumulate(a, b) ==
    IF IsSome(a) /\ IsSome(b) THEN Some(I32Add(Unwrap(a), Unwrap(b)))
    ELSE IF IsSome(a) THEN a ELSE b

\* The token counts of a usage sample and the accumulated counts a session
\* starts with: each absent or present, with a different count per counter.
InputTokenCounts == {None, Some(1)}
OutputTokenCounts == {None, Some(2)}
TotalTokenCounts == {None, Some(3)}
InitialAccumulated == {None, Some(4)}
Usages ==
    {Usage(i, o, t) : i \in InputTokenCounts, o \in OutputTokenCounts,
                      t \in TotalTokenCounts}
SessionConfigs == [id : SessionIds, schedule_id : {None, Some("schedule-1")}]

\* The fields of a Session this operation reads and writes.
Session(schedule_id, total, input, output, acc_total, acc_input, acc_output) ==
    [schedule_id |-> schedule_id,
     total_tokens |-> total, input_tokens |-> input, output_tokens |-> output,
     accumulated_total_tokens |-> acc_total,
     accumulated_input_tokens |-> acc_input,
     accumulated_output_tokens |-> acc_output]
InitialSessions ==
    {Session(None, None, None, None, t, i, o) :
        t \in InitialAccumulated, i \in InitialAccumulated, o \in InitialAccumulated}

\* SessionManager::get_session(id, false): the session, or a failure when
\* there is none; the store is not changed.
get_session(id) ==
    IF IsSome(sessions[id]) THEN Ok(Unwrap(sessions[id])) ELSE Err("session not found")

\* lines 269-285: the update that apply() is asked to persist.
SessionUpdate(session, config, usage) ==
    Session(config.schedule_id,
            usage.total_tokens, usage.input_tokens, usage.output_tokens,
            accumulate(session.accumulated_total_tokens, usage.total_tokens),
            accumulate(session.accumulated_input_tokens, usage.input_tokens),
            accumulate(session.accumulated_output_tokens, usage.output_tokens))

\* The accumulated counters of a session and the samples of a usage, by counter.
AccumulatedOf(session) ==
    [total |-> session.accumulated_total_tokens,
     input |-> session.accumulated_input_tokens,
     output |-> session.accumulated_output_tokens]
SampleOf(usage) ==
    [total |-> usage.total_tokens, input |-> usage.input_tokens,
     output |-> usage.output_tokens]
\* The running record of the values seen for a counter.
Seen(value) ==
    [present |-> IsSome(value), sum |-> IF IsSome(value) THEN Unwrap(value) ELSE 0]
SeenAlso(seen, value) ==
    [present |-> seen.present \/ IsSome(value),
     sum |-> seen.sum + IF IsSome(value) THEN Unwrap(value) ELSE 0]

NoAttempts == [lookups |-> 0, persists |-> 0]

\* A variant that carries on with an empty session when none is found.
LookupStep_OrDefault(r) ==
    IF r.ok
    THEN [pc |-> "persist", session |-> r.value, ret |-> None]
    ELSE [pc |-> "persist",
          session |-> Some(Session(None, None, None, None, None, None, None)),
          ret |-> None]

\* line 260: `get_session(..).await?` binds the session, or returns the
\* failure to the caller.
LookupStep(r) ==
    IF r.ok
    THEN [pc |-> "persist", session |-> r.value, ret |-> None]
    ELSE [pc |-> "idle", session |-> None, ret |-> Some(Err(Unwrap(r.err)))]

\* A variant that reads the stored session again when it builds the update.
SessionForUpdate_Reread(c) == Unwrap(sessions[m_config.id])

\* lines 260-275: the update is built from the session bound at line 260.
SessionForUpdate(c) == Unwrap(m_session[c])

MetIdle ==
    /\ sessions = [id \in SessionIds |-> None]
    /\ m_config = [id |-> "s1", schedule_id |-> None]
    /\ m_pc = [c \in Callers |-> "idle"]
    /\ m_usage = [c \in Callers |-> None]
    /\ m_session = [c \in Callers |-> None]
    /\ m_ret = [c \in Callers |-> None]
    /\ m_calls = 0
    /\ m_expect = [k \in Counters |-> Seen(None)]
    /\ m_attempts = [c \in Callers |-> NoAttempts]
    /\ m_base = [c \in Callers |-> None]
    /\ m_reflect = m_expect
    /\ m_overlap = FALSE

MetInit ==
    /\ sessions \in [SessionIds -> {None} \cup {Some(x) : x \in InitialSessions}]
    /\ m_config \in SessionConfigs
    /\ m_pc = [c \in Callers |-> "idle"]
    /\ m_usage = [c \in Callers |-> None]
    /\ m_session = [c \in Callers |-> None]
    /\ m_ret = [c \in Callers |-> None]
    /\ m_calls = 0
    /\ m_expect =
          [k \in Counters |->
              IF IsSome(sessions[m_config.id])
              THEN Seen(AccumulatedOf(Unwrap(sessions[m_config.id]))[k])
              ELSE Seen(None)]
    /\ m_attempts = [c \in Callers |-> NoAttempts]
    /\ m_base = [c \in Callers |-> None]
    /\ m_reflect = m_expect
    /\ m_overlap = FALSE

\* lines 255-260: a call is made, while no other call is in progress, and
\* waits for get_session.
MetCallAlone(c) ==
    /\ UNCHANGED m_others
    /\ m_calls < MaxCalls
    /\ \A d \in Callers : m_pc[d] = "idle"
    /\ \E usage \in Usages : m_usage' = [m_usage EXCEPT ![c] = Some(usage)]
    /\ m_pc' = [m_pc EXCEPT ![c] = "lookup"]
    /\ m_ret' = [m_ret EXCEPT ![c] = None]
    /\ m_calls' = m_calls + 1
    /\ m_attempts' = [m_attempts EXCEPT ![c] = NoAttempts]
    /\ UNCHANGED <<sessions, m_config, m_session, m_expect, m_base, m_reflect,
                   m_overlap>>

\* lines 255-260: a call is made, whatever the other callers are doing.
MetCall(c) ==
    /\ UNCHANGED m_others
    /\ m_calls < MaxRaceCalls
    /\ m_pc[c] = "idle"
    /\ \E usage \in Usages : m_usage' = [m_usage EXCEPT ![c] = Some(usage)]
    /\ m_pc' = [m_pc EXCEPT ![c] = "lookup"]
    /\ m_ret' = [m_ret EXCEPT ![c] = None]
    /\ m_calls' = m_calls + 1
    /\ m_attempts' = [m_attempts EXCEPT ![c] = NoAttempts]
    /\ m_overlap' = (m_overlap \/ \E d \in Callers : m_pc[d] # "idle")
    /\ UNCHANGED <<sessions, m_config, m_session, m_expect, m_base, m_reflect>>

\* line 260: get_session returns; `?` returns its failure to the caller.
MetLookup(c) ==
    /\ UNCHANGED m_others
    /\ m_pc[c] = "lookup"
    /\ LET step == LookupStep(get_session(m_config.id))
       IN /\ m_pc' = [m_pc EXCEPT ![c] = step.pc]
          /\ m_session' = [m_session EXCEPT ![c] = step.session]
          /\ m_ret' = [m_ret EXCEPT ![c] = step.ret]
          /\ m_usage' = [m_usage EXCEPT ![c] = IF step.pc = "idle" THEN None ELSE @]
          /\ m_base' = [m_base EXCEPT ![c] =
                           IF step.pc = "idle" THEN None ELSE Some(m_reflect)]
    /\ m_attempts' = [m_attempts EXCEPT ![c].lookups = @ + 1]
    /\ UNCHANGED <<sessions, m_config, m_calls, m_expect, m_reflect, m_overlap>>

\* lines 262-287: the counters are merged and apply() persists them, or
\* fails and `?` returns its failure to the caller.
MetPersist(c) ==
    /\ UNCHANGED m_others
    /\ m_pc[c] = "persist"
    /\ \E written \in BOOLEAN :
          LET usage == Unwrap(m_usage[c])
              update == SessionUpdate(SessionForUpdate(c), m_config, usage)
          IN IF written
             THEN /\ sessions' = [sessions EXCEPT ![m_config.id] = Some(update)]
                  /\ m_ret' = [m_ret EXCEPT ![c] = Some(Ok("unit"))]
                  /\ m_expect' = [k \in Counters |->
                                     SeenAlso(m_expect[k], SampleOf(usage)[k])]
                  /\ m_reflect' = [k \in Counters |->
                                      SeenAlso(Unwrap(m_base[c])[k], SampleOf(usage)[k])]
             ELSE /\ m_ret' = [m_ret EXCEPT ![c] = Some(Err("store write failed"))]
                  /\ UNCHANGED <<sessions, m_expect, m_reflect>>
    /\ m_pc' = [m_pc EXCEPT ![c] = "idle"]
    /\ m_usage' = [m_usage EXCEPT ![c] = None]
    /\ m_session' = [m_session EXCEPT ![c] = None]
    /\ m_base' = [m_base EXCEPT ![c] = None]
    /\ m_attempts' = [m_attempts EXCEPT ![c].persists = @ + 1]
    /\ UNCHANGED <<m_config, m_calls, m_overlap>>

MetNext == \E c \in Callers : MetCallAlone(c) \/ MetLookup(c) \/ MetPersist(c)

\* Calls made by tasks that run concurrently.
MetRaceNext == \E c \in Callers : MetCall(c) \/ MetLookup(c) \/ MetPersist(c)

----------------------------------------------------------------------------
(* Properties of the reconciler                                            *)

\* C10: after any sequence of non-overlapping successful calls on a session,
\* each accumulated counter is absent iff the initial value and every sample
\* were absent, and is otherwise the sum of the present ones; the three
\* counters are merged independently.
C10_AccumulatedFollowsMergeRule ==
    \A id \in SessionIds :
        IsSome(sessions[id]) =>
            \A k \in Counters :
                AccumulatedOf(Unwrap(sessions[id]))[k] =
                    IF m_expect[k].present THEN Some(m_expect[k].sum) ELSE None

C10_Witness ==
    /\ m_calls = 3
    /\ \A c \in Callers : m_pc[c] = "idle"
    /\ IsSome(sessions["s1"])
    /\ m_expect["total"] = [present |-> TRUE, sum |-> 10]
    /\ m_expect["input"] = [present |-> TRUE, sum |-> 1]
    /\ m_expect["output"] = [present |-> FALSE, sum |-> 0]
    /\ Unwrap(sessions["s1"]).total_tokens = None
    /\ Unwrap(sessions["s1"]).input_tokens = None
    /\ Unwrap(sessions["s1"]).accumulated_total_tokens = Some(10)
    /\ Unwrap(sessions["s1"]).accumulated_input_tokens = Some(1)
    /\ Unwrap(sessions["s1"]).accumulated_output_tokens = None

\* C11: when the session cannot be located the call returns that failure
\* after one lookup, issues no persist and leaves the store as it was (no
\* session is created, nothing is retried); a failure of the persist step is
\* returned after that single attempt.
C11_MissingSessionFailsWithoutWrite ==
    [][\A c \in Callers :
          /\ (m_pc[c] = "lookup" /\ m_pc'[c] # "lookup"
                  /\ sessions[m_config.id] = None) =>
                /\ m_pc'[c] = "idle"
                /\ m_ret'[c] = Some(Err("session not found"))
                /\ sessions' = sessions
                /\ m_attempts'[c] = [lookups |-> 1, persists |-> 0]
          /\ (m_pc[c] = "persist" /\ m_ret'[c] = Some(Err("store write failed"))) =>
                /\ m_pc'[c] = "idle"
                /\ sessions' = sessions
                /\ m_attempts'[c] = [lookups |-> 1, persists |-> 1]
          /\ m_attempts'[c].lookups <= 1 /\ m_attempts'[c].persists <= 1]_vars

C11_Witness ==
    /\ m_calls = 2
    /\ \A c \in Callers :
          /\ m_pc[c] = "idle"
          /\ m_ret[c] = Some(Err("session not found"))
          /\ m_attempts[c] = [lookups |-> 1, persists |-> 0]
    /\ \A id \in SessionIds : sessions[id] = None

\* C12: the stored accumulated counters reflect the samples the session
\* read by the last successful writer reflected, and that writer's sample;
\* when no call overlapped another these are all the samples of the
\* successful calls, each counted once.
C12_UpdatesLostOnlyByOverlap ==
    /\ \A id \in SessionIds :
          IsSome(sessions[id]) =>
              \A k \in Counters :
                  AccumulatedOf(Unwrap(sessions[id]))[k] =
                      IF m_reflect[k].present THEN Some(m_reflect[k].sum) ELSE None
    /\ ~m_overlap => m_reflect = m_expect

\* Two overlapping successful calls after which every counter holds one
\* sample where two were reported.
C12_Witness ==
    /\ m_overlap
    /\ m_calls = 2
    /\ \A c \in Callers : m_pc[c] = "idle" /\ m_ret[c] = Some(Ok("unit"))
    /\ m_expect = [total |-> [present |-> TRUE, sum |-> 10],
                   input |-> [present |-> TRUE, sum |-> 6],
                   output |-> [present |-> TRUE, sum |-> 8]]
    /\ AccumulatedOf(Unwrap(sessions["s1"])) =
          [total |-> Some(7), input |-> Some(5), output |-> Some(6)]

----------------------------------------------------------------------------
(* Specifications                                                          *)

StreamSpecInit == StreamInit /\ AgentIdle /\ PrepIdle /\ CatIdle /\ MetIdle
SpecStream == StreamSpecInit /\ [][StreamNext]_vars

PrepSpecInit == PrepInit /\ StreamIdle /\ CatIdle /\ MetIdle
SpecPrepare == PrepSpecInit /\ [][PrepNext]_vars

CatSpecInit == CatInit /\ StreamIdle /\ PrepIdle /\ MetIdle
SpecCategorize == CatSpecInit /\ [][CatNext]_vars
SpecCategorizeRace == CatSpecInit /\ [][CatRaceNext]_vars

MetSpecInit == MetInit /\ StreamIdle /\ AgentIdle /\ PrepIdle /\ CatIdle
SpecMetrics == MetSpecInit /\ [][MetNext]_vars
SpecMetricsRace == MetSpecInit /\ [][MetRaceNext]_vars

====
